---- MODULE Spec2Model ----
(***************************************************************************)
(* Model of zato.server.connection.amqp: BaseAMQPConnection (one AMQP     *)
(* connection session) and BaseAMQPConnector (the owner of the active     *)
(* AMQP definition, of the outgoing and channel registries and of the     *)
(* three RLocks), driven by broker messages handled on several threads.   *)
(***************************************************************************)
EXTENDS Integers, Sequences, FiniteSets, TLC

(***************************************************************************)
(* Bounds of the model.                                                    *)
(***************************************************************************)
MaxId == 2          \* definition ids carried by messages: 1..MaxId
MaxThreads == 2     \* threads delivering broker messages
MaxSid == 4         \* connection objects ever created by the connector
MaxVariant == 3     \* distinct payloads of an EDIT message
MaxCloseCalls == 2  \* close() calls on one connection object
MaxAttempts == 2    \* _start() calls on one connection object

Ids == 1..MaxId
Threads == 1..MaxThreads
Variants == 1..MaxVariant

(***************************************************************************)
(* errno values (Linux) used by reconnect_error_numbers.                   *)
(***************************************************************************)
ENETUNREACH == 101
ENETRESET == 102
ECONNABORTED == 103
ECONNRESET == 104
ETIMEDOUT == 110
ECONNREFUSED == 111
EHOSTUNREACH == 113

(***************************************************************************)
(* Broker message actions.                                                 *)
(***************************************************************************)
CLOSE == "AMQP_CONNECTOR_CLOSE"
AMQP_CREATE == "DEFINITION_AMQP_CREATE"
AMQP_EDIT == "DEFINITION_AMQP_EDIT"
AMQP_DELETE == "DEFINITION_AMQP_DELETE"
AMQP_CHANGE_PASSWORD == "DEFINITION_AMQP_CHANGE_PASSWORD"

DefinitionActions == {AMQP_CREATE, AMQP_EDIT, AMQP_DELETE, AMQP_CHANGE_PASSWORD}

(***************************************************************************)
(* A Bunch is a function from attribute names to values.                   *)
(***************************************************************************)
EmptyBunch == [k \in {} |-> 0]

Has(b, k) == k \in DOMAIN b

Put(b, k, v) == [x \in (DOMAIN b) \cup {k} |-> IF x = k THEN v ELSE b[x]]

(***************************************************************************)
(* Host values arrive as unicode text from the broker or the database;    *)
(* str() turns them into byte strings with the same text.                  *)
(***************************************************************************)
Unicode(text) == [kind |-> "unicode", text |-> text]

Str(h) == [kind |-> "str", text |-> h.text]

HostName(v) == CASE v = 1 -> "mq2" [] v = 2 -> "mq3" [] v = 3 -> "mq4" [] OTHER -> "mq5"

Port(v) == 5672 + v

(***************************************************************************)
(* The row get_def_amqp returns for this connector's definition.           *)
(***************************************************************************)
Item == [name |-> "def1", id |-> 1, host |-> Unicode("mq1"), port |-> 5672,
         vhost |-> "/", username |-> "u1", password |-> "p1",
         heartbeat |-> 10, frame_max |-> 131072]

OwnToken == "tokA"
Tokens == {"tokA", "tokB"}
NewPasswords == {"p2"}

(***************************************************************************)
(* Broker messages.  An EDIT or CREATE message carries the definition in   *)
(* one of three shapes: flat without password, flat with password, or     *)
(* with a nested credentials record; payload v has host HostName(v), port  *)
(* Port(v) and shape ShapeOf(v).                                           *)
(***************************************************************************)
ShapeOf(v) == CASE v % 3 = 1 -> "flat" [] v % 3 = 2 -> "flat_pw" [] OTHER -> "cred"

DefPayload(act, id, v) ==
    LET shape == ShapeOf(v)
        base == [action |-> act, id |-> id, name |-> "def1",
                 host |-> Unicode(HostName(v)), port |-> Port(v),
                 heartbeat |-> 10, frame_max |-> 131072]
    IN  CASE shape = "flat" ->
               Put(Put(base, "virtual_host", "/v"), "username", "u1")
          [] shape = "flat_pw" ->
               Put(Put(Put(base, "vhost", "/v"), "username", "u1"), "password", "px")
          [] OTHER ->
               Put(Put(base, "virtual_host", "/v"), "credentials",
                   [username |-> "u2", password |-> "pc"])

CloseMsgs == {[action |-> CLOSE, odb_token |-> tk] : tk \in Tokens}
DeleteMsgs == {[action |-> AMQP_DELETE, id |-> id] : id \in Ids}
ChangePasswordMsgs == {[action |-> AMQP_CHANGE_PASSWORD, id |-> id, password |-> pw] :
                           id \in Ids, pw \in NewPasswords}
EditMsgs == {DefPayload(AMQP_EDIT, id, v) : id \in Ids, v \in Variants}
CreateMsgs == {DefPayload(AMQP_CREATE, id, 2) : id \in Ids}

Messages == CloseMsgs \cup DeleteMsgs \cup ChangePasswordMsgs \cup EditMsgs \cup CreateMsgs

NoMsg == [action |-> "none"]

(***************************************************************************)
(* BaseAMQPConnector.filter: True for a CLOSE carrying the connector's own *)
(* ODB token and for an EDIT, DELETE or CHANGE_PASSWORD carrying the id of *)
(* the current definition; None (FALSE here) in every other case.          *)
(***************************************************************************)
\* Variants of filter with one check changed.
filter_with_create(def, token, m) ==
    IF m.action = CLOSE
      THEN token = m.odb_token
      ELSE IF m.action \in DefinitionActions
             THEN def.id = m.id
             ELSE FALSE

filter_any_close(def, token, m) ==
    IF m.action = CLOSE
      THEN TRUE
      ELSE IF m.action \in {AMQP_EDIT, AMQP_DELETE, AMQP_CHANGE_PASSWORD}
             THEN def.id = m.id
             ELSE FALSE

filter_any_id(def, token, m) ==
    IF m.action = CLOSE
      THEN token = m.odb_token
      ELSE m.action \in {AMQP_EDIT, AMQP_DELETE, AMQP_CHANGE_PASSWORD}

FilterActions == {AMQP_EDIT, AMQP_DELETE, AMQP_CHANGE_PASSWORD}

filter(def, token, m) ==
    IF m.action = CLOSE
      THEN token = m.odb_token
      ELSE IF m.action \in FilterActions
             THEN def.id = m.id
             ELSE FALSE

(***************************************************************************)
(* BaseAMQPConnector._amqp_conn_params.  "AttributeError" stands for the   *)
(* exception raised when the Bunch lacks an attribute that is read.        *)
(***************************************************************************)
AttributeError == [error |-> "AttributeError"]

ParamsNeed(def) ==
    /\ Has(def, "virtual_host") \/ Has(def, "vhost")
    /\ Has(def, "credentials") \/ (Has(def, "username") /\ Has(def, "password"))
    /\ {"host", "port", "frame_max", "heartbeat"} \subseteq DOMAIN def

amqp_conn_params(def) ==
    IF ~ParamsNeed(def) THEN AttributeError
    ELSE
    LET vhost == IF Has(def, "virtual_host") THEN def.virtual_host ELSE def.vhost
        username == IF Has(def, "credentials") THEN def.credentials.username
                                               ELSE def.username
        password == IF Has(def, "credentials") THEN def.credentials.password
                                               ELSE def.password
    IN  [host |-> def.host, port |-> def.port, virtual_host |-> vhost,
         username |-> username, password |-> password,
         frame_max |-> def.frame_max, heartbeat |-> def.heartbeat]

(***************************************************************************)
(* Exceptions a connection attempt can raise, and                          *)
(* BaseAMQPConnection._keep_connecting.                                    *)
(***************************************************************************)
\* reconnect_error_numbers without ETIMEDOUT.
reconnect_error_numbers_short == {ENETUNREACH, ENETRESET, ECONNABORTED, ECONNRESET,
                                  ECONNREFUSED, EHOSTUNREACH}

reconnect_error_numbers == {ENETUNREACH, ENETRESET, ECONNABORTED, ECONNRESET,
                            ETIMEDOUT, ECONNREFUSED, EHOSTUNREACH}

\* errno of exceptions outside the list: None (0 here), EPERM and EPIPE.
OtherErrnos == {0, 1, 32}

ExceptionClasses == {"TypeError", "EnvironmentError", "IOError", "OSError", "ValueError"}

\* Python 2 class hierarchy: IOError and OSError derive from EnvironmentError.
BaseClasses(cls) ==
    CASE cls = "IOError" -> {"IOError", "EnvironmentError"}
      [] cls = "OSError" -> {"OSError", "EnvironmentError"}
      [] OTHER -> {cls}

IsInstance(e, cls) == cls \in BaseClasses(e.cls)

Errnos == {ENETUNREACH, ENETRESET, ECONNABORTED, ECONNRESET, ETIMEDOUT,
           ECONNREFUSED, EHOSTUNREACH} \cup OtherErrnos

Exceptions == {[cls |-> c, errno |-> n] : c \in ExceptionClasses, n \in Errnos}

keep_connecting(e) ==
    IsInstance(e, "TypeError")
      \/ (IsInstance(e, "EnvironmentError") /\ e.errno \in reconnect_error_numbers)

(***************************************************************************)
(* Locks and handler programs.  A handler is a straight-line program whose *)
(* with-blocks are acquire/release pairs; one instruction is one step of   *)
(* the thread running it.                                                  *)
(***************************************************************************)
DefLock == "def_amqp_lock"
OutLock == "out_amqp_lock"
ChannelLock == "channel_amqp_lock"
Locks == {DefLock, OutLock, ChannelLock}

Acq(l) == [op |-> "acquire", lock |-> l]
Rel(l) == [op |-> "release", lock |-> l]
Do(o) == [op |-> o, lock |-> "-"]

\* The EDIT handler without the carry-over of the password.
edit_program_no_carry ==
    << Acq(DefLock),
       Do("edit_read_password"), Do("edit_assign"), Do("edit_set_host"),
       Acq(OutLock), Acq(ChannelLock),
       Do("recreate"),
       Rel(ChannelLock), Rel(OutLock), Rel(DefLock) >>

\* The EDIT handler recreating the publishers before it replaces def_amqp.
edit_program_recreate_first ==
    << Acq(DefLock),
       Acq(OutLock), Acq(ChannelLock),
       Do("recreate"),
       Rel(ChannelLock), Rel(OutLock),
       Do("edit_read_password"), Do("edit_assign"),
       Do("edit_set_password"), Do("edit_set_host"),
       Rel(DefLock) >>

\* The EDIT handler without def_amqp_lock.
edit_program_unlocked ==
    << Do("edit_read_password"), Do("edit_assign"),
       Do("edit_set_password"), Do("edit_set_host"),
       Acq(OutLock), Acq(ChannelLock),
       Do("recreate"),
       Rel(ChannelLock), Rel(OutLock) >>

edit_program ==
    << Acq(DefLock),
       Do("edit_read_password"), Do("edit_assign"),
       Do("edit_set_password"), Do("edit_set_host"),
       Acq(OutLock), Acq(ChannelLock),
       Do("recreate"),
       Rel(ChannelLock), Rel(OutLock), Rel(DefLock) >>

\* The CHANGE_PASSWORD handler without the recreation of the publishers.
change_password_program_no_recreate ==
    << Acq(DefLock),
       Do("set_password"),
       Acq(OutLock), Acq(ChannelLock),
       Rel(ChannelLock), Rel(OutLock), Rel(DefLock) >>

change_password_program ==
    << Acq(DefLock),
       Do("set_password"),
       Acq(OutLock), Acq(ChannelLock),
       Do("recreate"),
       Rel(ChannelLock), Rel(OutLock), Rel(DefLock) >>

\* The CREATE handler without the str() of the host.
create_program_no_str ==
    << Acq(DefLock),
       Do("create_store"),
       Rel(DefLock) >>

create_program ==
    << Acq(DefLock),
       Do("create_set_host"), Do("create_store"),
       Rel(DefLock) >>

\* _close calling terminate before the connections and the ODB are closed.
close_program_terminate_first ==
    << Acq(DefLock), Acq(OutLock),
       Do("terminate"), Do("stop"), Do("odb_close"),
       Rel(OutLock), Rel(DefLock) >>

\* _close taking its two locks in the opposite order.
close_program_swapped ==
    << Acq(OutLock), Acq(DefLock),
       Do("stop"), Do("odb_close"), Do("terminate"),
       Rel(DefLock), Rel(OutLock) >>

close_program ==
    << Acq(DefLock), Acq(OutLock),
       Do("stop"), Do("odb_close"), Do("terminate"),
       Rel(OutLock), Rel(DefLock) >>

\* on_broker_pull_msg_<action>: the program run for an accepted message.
Handler(action) ==
    CASE action = AMQP_EDIT -> edit_program
      [] action = AMQP_CHANGE_PASSWORD -> change_password_program
      [] action = AMQP_CREATE -> create_program
      [] OTHER -> close_program

(***************************************************************************)
(* Registry names provisioned by the concrete connector.                   *)
(***************************************************************************)
OutNames == {"out1"}
ChannelNames == {"chan1"}

VARIABLES
    phase,          \* "init", "odb", "running" or "failed": progress of startup
    def_amqp,       \* self.def_amqp
    out_amqp,       \* self.out_amqp: name -> connection object
    channel_amqp,   \* self.channel_amqp: name -> connection object
    lock,           \* RLock state: lock -> [owner, count]
    odb,            \* self.odb: [token, closes]
    terminations,   \* number of p.terminate() calls
    conns,          \* every BaseAMQPConnection object created, by identity
    pc,             \* thread -> "idle", "running" or "ignored"
    ip,             \* thread -> index of the next instruction of its handler
    msg,            \* thread -> the message it is handling
    password,       \* thread -> the local variable password of the EDIT handler
    entry           \* history: def_amqp, out_amqp and the number of connection
                    \* objects when def_amqp_lock was last taken

vars == << phase, def_amqp, out_amqp, channel_amqp, lock, odb, terminations,
           conns, pc, ip, msg, password, entry >>

connectorVars == << phase, def_amqp, out_amqp, channel_amqp, lock, odb, terminations >>
threadVars == << pc, ip, msg, password >>

EmptyRegistry == [k \in {} |-> 0]
Free == [owner |-> 0, count |-> 0]
NoPassword == "<unset>"
NoEntry == [def |-> EmptyBunch, out |-> EmptyRegistry, heap |-> 0, by |-> 0]

(***************************************************************************)
(* BaseAMQPConnection objects.  conn is 0 for None, otherwise the number   *)
(* of the TornadoConnection created by the latest _start; channel is 0    *)
(* for None, otherwise the number of the connection the channel was       *)
(* opened on; close_calls counts the close() requests made to the current  *)
(* TornadoConnection; pending is the callback the I/O loop still owes.     *)
(***************************************************************************)
NoException == [cls |-> "none", errno |-> 0]

NewConnection(params) ==
    [conn_params |-> params, conn |-> 0, transport |-> "none", channel |-> 0,
     pending |-> "none", starts |-> 0, close_calls |-> 0,
     last_error |-> NoException, verdict |-> "none"]

\* _start recording a channel right away.
start_with_channel(c) ==
    [c EXCEPT !.conn = c.starts + 1, !.starts = c.starts + 1,
              !.transport = "connecting", !.pending = "connect", !.close_calls = 0,
              !.channel = c.starts + 1]

\* BaseAMQPConnection._start
start(c) ==
    [c EXCEPT !.conn = c.starts + 1, !.starts = c.starts + 1,
              !.transport = "connecting", !.pending = "connect", !.close_calls = 0]

\* BaseAMQPConnection._close
close(c) ==
    IF c.conn # 0
      THEN [c EXCEPT !.close_calls = c.close_calls + 1, !.transport = "closed"]
      ELSE c

\* BaseAMQPConnection._on_connected
on_connected(c) ==
    [c EXCEPT !.transport = IF c.transport = "closed" THEN "closed" ELSE "open",
              !.pending = "channel"]

\* BaseAMQPConnection._on_channel_open
on_channel_open(c) == [c EXCEPT !.channel = c.conn, !.pending = "none"]

(***************************************************************************)
(* The process is gone once p.terminate() sent it SIGTERM.                 *)
(***************************************************************************)
\* A process that survives SIGTERM.
ProcessAliveAfterSigterm == TRUE

ProcessAlive == terminations = 0

Init ==
    /\ phase = "init"
    /\ def_amqp = EmptyBunch
    /\ out_amqp = EmptyRegistry
    /\ channel_amqp = EmptyRegistry
    /\ lock = [l \in Locks |-> Free]
    /\ odb = [token |-> OwnToken, closes |-> 0]
    /\ terminations = 0
    /\ conns = << >>
    /\ pc = [t \in Threads |-> "idle"]
    /\ ip = [t \in Threads |-> 0]
    /\ msg = [t \in Threads |-> NoMsg]
    /\ password = [t \in Threads |-> NoPassword]
    /\ entry = NoEntry

(***************************************************************************)
(* Startup: _setup_odb loads the definition; the concrete connector then   *)
(* provisions one connection per registry name from it.                    *)
(***************************************************************************)
setup_odb(item) ==
    [name |-> item.name, id |-> item.id, host |-> Str(item.host), port |-> item.port,
     vhost |-> item.vhost, username |-> item.username, password |-> item.password,
     heartbeat |-> item.heartbeat, frame_max |-> item.frame_max]

\* A startup that carries on after the lookup failed.
SetupOdbCarriesOn ==
    /\ phase = "init"
    /\ \E found \in BOOLEAN :
         /\ def_amqp' = IF found THEN setup_odb(Item) ELSE def_amqp
         /\ phase' = "odb"
    /\ UNCHANGED << out_amqp, channel_amqp, lock, odb, terminations, conns,
                    threadVars, entry >>

SetupOdb ==
    /\ phase = "init"
    /\ \E found \in BOOLEAN :
         IF found
           THEN /\ def_amqp' = setup_odb(Item)
                /\ phase' = "odb"
           ELSE /\ def_amqp' = def_amqp
                /\ phase' = "failed"
    /\ UNCHANGED << out_amqp, channel_amqp, lock, odb, terminations, conns,
                    threadVars, entry >>

RECURSIVE Provisioned(_, _, _)
Provisioned(names, heap, params) ==
    IF names = {} THEN [heap |-> heap, reg |-> EmptyRegistry]
    ELSE LET n == CHOOSE x \in names : TRUE
             rest == Provisioned(names \ {n}, Append(heap, start(NewConnection(params))), params)
         IN  [heap |-> rest.heap, reg |-> Put(rest.reg, n, Len(heap) + 1)]

Provision ==
    /\ phase = "odb"
    /\ LET params == amqp_conn_params(def_amqp)
           o == Provisioned(OutNames, conns, params)
           c == Provisioned(ChannelNames, o.heap, params)
       IN  /\ out_amqp' = o.reg
           /\ channel_amqp' = c.reg
           /\ conns' = c.heap
    /\ phase' = "running"
    /\ UNCHANGED << def_amqp, lock, odb, terminations, threadVars, entry >>

(***************************************************************************)
(* Delivery of a broker message to a thread, and the dispatch on filter.   *)
(***************************************************************************)
Recreating == {AMQP_EDIT, AMQP_CHANGE_PASSWORD}

Busy == {t \in Threads : pc[t] = "running" /\ msg[t].action \in Recreating}

\* A thread is handed the message m.
Deliverable(t, m) ==
    /\ phase = "running" /\ ProcessAlive
    /\ pc[t] = "idle"
    /\ m.action \in Recreating =>
           Len(conns) + (Cardinality(Busy) + 1) * Cardinality(OutNames) <= MaxSid

\* The handler runs if filter returns True; otherwise the message is dropped.
Receive(t, m) ==
    /\ Deliverable(t, m)
    /\ msg' = [msg EXCEPT ![t] = m]
    /\ IF filter(def_amqp, odb.token, m)
         THEN /\ pc' = [pc EXCEPT ![t] = "running"]
              /\ ip' = [ip EXCEPT ![t] = 1]
         ELSE /\ pc' = [pc EXCEPT ![t] = "ignored"]
              /\ ip' = ip
    /\ UNCHANGED << connectorVars, conns, password, entry >>

Return(t) ==
    /\ ProcessAlive
    /\ pc[t] = "ignored"
    /\ pc' = [pc EXCEPT ![t] = "idle"]
    /\ msg' = [msg EXCEPT ![t] = NoMsg]
    /\ UNCHANGED << connectorVars, conns, ip, password, entry >>

(***************************************************************************)
(* Execution of a handler program.                                         *)
(***************************************************************************)
Program(t) == Handler(msg[t].action)

Instr(t) == Program(t)[ip[t]]

At(t, o) == ProcessAlive /\ pc[t] = "running" /\ Instr(t).op = o

\* The thread moves to instruction i with pw in its local variable, or
\* returns when the program is over.
GotoWith(t, i, pw) ==
    IF i > Len(Program(t))
      THEN /\ pc' = [pc EXCEPT ![t] = "idle"]
           /\ ip' = [ip EXCEPT ![t] = 0]
           /\ msg' = [msg EXCEPT ![t] = NoMsg]
           /\ password' = [password EXCEPT ![t] = NoPassword]
      ELSE /\ ip' = [ip EXCEPT ![t] = i]
           /\ password' = [password EXCEPT ![t] = pw]
           /\ UNCHANGED << pc, msg >>

Goto(t, i) == GotoWith(t, i, password[t])

Step(t) == Goto(t, ip[t] + 1)

\* An exception leaves the enclosing with-blocks: the next release runs.
ExitIp(t) ==
    LET later == {i \in (ip[t] + 1)..Len(Program(t)) : Program(t)[i].op = "release"}
    IN  IF later = {} THEN Len(Program(t)) + 1
        ELSE CHOOSE i \in later : \A j \in later : i <= j

Raise(t) == Goto(t, ExitIp(t))

Acquire(t) ==
    /\ At(t, "acquire")
    /\ LET l == Instr(t).lock
       IN  /\ lock[l].owner \in {0, t}
           /\ lock' = [lock EXCEPT ![l] = [owner |-> t, count |-> lock[l].count + 1]]
           /\ entry' = IF l = DefLock /\ lock[l].owner = 0
                         THEN [def |-> def_amqp, out |-> out_amqp, heap |-> Len(conns), by |-> t]
                         ELSE entry
    /\ Step(t)
    /\ UNCHANGED << phase, def_amqp, out_amqp, channel_amqp, odb, terminations, conns >>

Release(t) ==
    /\ At(t, "release")
    /\ LET l == Instr(t).lock
       IN  /\ lock[l].owner = t
           /\ lock' = [lock EXCEPT ![l] = IF lock[l].count = 1 THEN Free
                                           ELSE [owner |-> t, count |-> lock[l].count - 1]]
           /\ entry' = IF l = DefLock /\ lock[l].count = 1 THEN NoEntry ELSE entry
    /\ Step(t)
    /\ UNCHANGED << phase, def_amqp, out_amqp, channel_amqp, odb, terminations, conns >>

(***************************************************************************)
(* on_broker_pull_msg_DEFINITION_AMQP_EDIT, one statement per action.      *)
(***************************************************************************)
EditReadPassword(t) ==
    /\ At(t, "edit_read_password")
    /\ IF Has(def_amqp, "password")
         THEN GotoWith(t, ip[t] + 1, def_amqp.password)
         ELSE Raise(t)
    /\ UNCHANGED << connectorVars, conns, entry >>

EditAssign(t) ==
    /\ At(t, "edit_assign")
    /\ def_amqp' = msg[t]
    /\ Step(t)
    /\ UNCHANGED << phase, out_amqp, channel_amqp, lock, odb, terminations, conns, entry >>

EditSetPassword(t) ==
    /\ At(t, "edit_set_password")
    /\ def_amqp' = Put(def_amqp, "password", password[t])
    /\ Step(t)
    /\ UNCHANGED << phase, out_amqp, channel_amqp, lock, odb, terminations, conns, entry >>

EditSetHost(t) ==
    /\ At(t, "edit_set_host")
    /\ def_amqp' = Put(def_amqp, "host", Str(def_amqp.host))
    /\ Step(t)
    /\ UNCHANGED << phase, out_amqp, channel_amqp, lock, odb, terminations, conns, entry >>

(***************************************************************************)
(* on_broker_pull_msg_DEFINITION_AMQP_CHANGE_PASSWORD                      *)
(***************************************************************************)
SetPassword(t) ==
    /\ At(t, "set_password")
    /\ def_amqp' = Put(def_amqp, "password", msg[t].password)
    /\ Step(t)
    /\ UNCHANGED << phase, out_amqp, channel_amqp, lock, odb, terminations, conns, entry >>

(***************************************************************************)
(* _recreate_amqp_publisher: every connection of the outgoing registry is  *)
(* closed and a new one, built from the current definition, is started in  *)
(* its place.                                                              *)
(***************************************************************************)
\* A recreation that closes every connection object, not only the outgoing ones.
RECURSIVE recreate_every_connection(_, _, _, _)
recreate_every_connection(names, reg, heap, params) ==
    IF names = {} THEN [heap |-> heap, reg |-> reg]
    ELSE LET n == CHOOSE x \in names : TRUE
             closed == [s \in DOMAIN heap |-> close(heap[s])]
             started == Append(closed, start(NewConnection(params)))
         IN  recreate_every_connection(names \ {n}, [reg EXCEPT ![n] = Len(heap) + 1],
                                       started, params)

RECURSIVE recreate_amqp_publisher(_, _, _, _)
recreate_amqp_publisher(names, reg, heap, params) ==
    IF names = {} THEN [heap |-> heap, reg |-> reg]
    ELSE LET n == CHOOSE x \in names : TRUE
             closed == [heap EXCEPT ![reg[n]] = close(heap[reg[n]])]
             started == Append(closed, start(NewConnection(params)))
         IN  recreate_amqp_publisher(names \ {n}, [reg EXCEPT ![n] = Len(heap) + 1],
                                     started, params)

Recreate(t) ==
    /\ At(t, "recreate")
    /\ LET params == amqp_conn_params(def_amqp)
           r == recreate_amqp_publisher(DOMAIN out_amqp, out_amqp, conns, params)
       IN  IF params = AttributeError
             THEN /\ Raise(t)
                  /\ UNCHANGED << out_amqp, conns >>
             ELSE /\ Step(t)
                  /\ out_amqp' = r.reg
                  /\ conns' = r.heap
    /\ UNCHANGED << phase, def_amqp, channel_amqp, lock, odb, terminations, entry >>

(***************************************************************************)
(* BaseAMQPConnector._close, run for CONNECTOR_CLOSE and AMQP_DELETE.      *)
(***************************************************************************)
\* _stop_amqp_connection as a concrete connector implements it.
stop_amqp_connection(reg, heap) ==
    [s \in DOMAIN heap |-> IF \E n \in DOMAIN reg : reg[n] = s THEN close(heap[s])
                                                               ELSE heap[s]]

Stop(t) ==
    /\ At(t, "stop")
    /\ conns' = stop_amqp_connection(out_amqp, conns)
    /\ Step(t)
    /\ UNCHANGED << connectorVars, entry >>

\* _stop_amqp_connection raises: the with-blocks are left, nothing else runs.
StopRaises(t) ==
    /\ At(t, "stop")
    /\ Raise(t)
    /\ UNCHANGED << connectorVars, conns, entry >>

OdbClose(t) ==
    /\ At(t, "odb_close")
    /\ odb' = [odb EXCEPT !.closes = odb.closes + 1]
    /\ Step(t)
    /\ UNCHANGED << phase, def_amqp, out_amqp, channel_amqp, lock, terminations, conns, entry >>

Terminate(t) ==
    /\ At(t, "terminate")
    /\ terminations' = terminations + 1
    /\ Step(t)
    /\ UNCHANGED << phase, def_amqp, out_amqp, channel_amqp, lock, odb, conns, entry >>

(***************************************************************************)
(* on_broker_pull_msg_DEFINITION_AMQP_CREATE.  The handler is reached only *)
(* when something other than BaseAMQPConnector.filter accepts the message. *)
(***************************************************************************)
IdKey(id) == CASE id = 1 -> "1" [] id = 2 -> "2" [] id = 3 -> "3" [] OTHER -> "n"

Invoke(t, m) ==
    /\ Deliverable(t, m)
    /\ m.action = AMQP_CREATE
    /\ msg' = [msg EXCEPT ![t] = m]
    /\ pc' = [pc EXCEPT ![t] = "running"]
    /\ ip' = [ip EXCEPT ![t] = 1]
    /\ UNCHANGED << connectorVars, conns, password, entry >>

CreateSetHost(t) ==
    /\ At(t, "create_set_host")
    /\ ip' = [ip EXCEPT ![t] = ip[t] + 1]
    /\ msg' = [msg EXCEPT ![t] = Put(msg[t], "host", Str(msg[t].host))]
    /\ UNCHANGED << connectorVars, conns, pc, password, entry >>

CreateStore(t) ==
    /\ At(t, "create_store")
    /\ def_amqp' = Put(def_amqp, IdKey(msg[t].id), msg[t])
    /\ Step(t)
    /\ UNCHANGED << phase, out_amqp, channel_amqp, lock, odb, terminations, conns, entry >>

(***************************************************************************)
(* The I/O loop: callbacks of the connections, and the outcome of a        *)
(* connection attempt that raises.                                         *)
(***************************************************************************)
Live(s) == s \in DOMAIN conns /\ ProcessAlive

OnConnected(s) ==
    /\ Live(s)
    /\ conns[s].pending = "connect"
    /\ conns' = [conns EXCEPT ![s] = on_connected(conns[s])]
    /\ UNCHANGED << connectorVars, threadVars, entry >>

OnChannelOpen(s) ==
    /\ Live(s)
    /\ conns[s].pending = "channel"
    /\ conns' = [conns EXCEPT ![s] = on_channel_open(conns[s])]
    /\ UNCHANGED << connectorVars, threadVars, entry >>

reconnect_exceptions == {"TypeError", "EnvironmentError"}

\* The reconnect loop around _start: retry when _keep_connecting says so.
Classify(e) ==
    IF (\E cls \in reconnect_exceptions : IsInstance(e, cls)) /\ keep_connecting(e)
      THEN "retry" ELSE "fatal"

failed(c, e) ==
    LET seen == [c EXCEPT !.last_error = e, !.verdict = Classify(e)]
    IN  IF Classify(e) = "retry"
          THEN start(seen)
          ELSE [seen EXCEPT !.transport = "failed", !.pending = "none"]

ConnectFails(s, e) ==
    /\ Live(s)
    /\ conns[s].transport \in {"connecting", "open"}
    /\ conns[s].starts < MaxAttempts
    /\ conns' = [conns EXCEPT ![s] = failed(conns[s], e)]
    /\ UNCHANGED << connectorVars, threadVars, entry >>

\* start() and close() called on a connection by its owner.
SessionStart(s) ==
    /\ Live(s)
    /\ conns[s].starts = 0
    /\ conns' = [conns EXCEPT ![s] = start(conns[s])]
    /\ UNCHANGED << connectorVars, threadVars, entry >>

SessionClose(s) ==
    /\ Live(s)
    /\ conns[s].close_calls < MaxCloseCalls
    /\ conns' = [conns EXCEPT ![s] = close(conns[s])]
    /\ UNCHANGED << connectorVars, threadVars, entry >>

(***************************************************************************)
(* The specification of the connector: startup, delivery through filter,   *)
(* and the handlers filter lets through.                                   *)
(***************************************************************************)
Sids == 1..MaxSid

Next ==
    \/ SetupOdb
    \/ Provision
    \/ \E t \in Threads :
         \/ \E m \in Messages : Receive(t, m)
         \/ Return(t)
         \/ Acquire(t)
         \/ Release(t)
         \/ EditReadPassword(t)
         \/ EditAssign(t)
         \/ EditSetPassword(t)
         \/ EditSetHost(t)
         \/ SetPassword(t)
         \/ Recreate(t)
         \/ Stop(t)
         \/ StopRaises(t)
         \/ OdbClose(t)
         \/ Terminate(t)

Spec == Init /\ [][Next]_vars

(***************************************************************************)
(* The same with the CREATE handler invoked directly.                      *)
(***************************************************************************)
NextDirect ==
    \/ Next
    \/ \E t \in Threads :
         \/ \E m \in CreateMsgs : Invoke(t, m)
         \/ CreateSetHost(t)
         \/ CreateStore(t)

SpecDirect == Init /\ [][NextDirect]_vars

(***************************************************************************)
(* One connection object driven through its own operations: start, the    *)
(* callbacks, failing attempts and close.                                  *)
(***************************************************************************)
InitSession ==
    /\ phase = "session"
    /\ def_amqp = setup_odb(Item)
    /\ out_amqp = EmptyRegistry
    /\ channel_amqp = EmptyRegistry
    /\ lock = [l \in Locks |-> Free]
    /\ odb = [token |-> OwnToken, closes |-> 0]
    /\ terminations = 0
    /\ conns = << NewConnection(amqp_conn_params(setup_odb(Item))) >>
    /\ pc = [t \in Threads |-> "idle"]
    /\ ip = [t \in Threads |-> 0]
    /\ msg = [t \in Threads |-> NoMsg]
    /\ password = [t \in Threads |-> NoPassword]
    /\ entry = NoEntry

NextSession ==
    \E s \in Sids :
       \/ SessionStart(s)
       \/ OnConnected(s)
       \/ OnChannelOpen(s)
       \/ \E e \in Exceptions : ConnectFails(s, e)
       \/ SessionClose(s)

SpecSession == InitSession /\ [][NextSession]_vars

TypeOK ==
    /\ phase \in {"init", "odb", "running", "failed", "session"}
    /\ \A t \in Threads : pc[t] \in {"idle", "running", "ignored"}

(***************************************************************************)
(* Properties.                                                             *)
(***************************************************************************)
Running(t, action) == pc[t] = "running" /\ msg[t].action = action

\* The thread has run the body of its handler and is about to release locks.
BodyDone(t) == pc[t] = "running" /\ Instr(t).op = "release"

\* The thread has executed instruction o of its handler.
Past(t, o) == \E i \in 1..(ip[t] - 1) : Program(t)[i].op = o

Holds(t, l) == lock[l].owner = t

Blocked(t) ==
    /\ pc[t] = "running"
    /\ Instr(t).op = "acquire"
    /\ lock[Instr(t).lock].owner \notin {0, t}

\* C1 as stated: for every DEFINITION_* action (CREATE, EDIT, DELETE,
\* CHANGE_PASSWORD) the filter accepts a message iff its id is the id of the
\* current definition.
C1_AcceptsEveryDefinitionAction ==
    \A t \in Threads :
        (pc[t] # "idle" /\ msg[t].action \in DefinitionActions)
            => ((pc[t] = "running") <=> (msg[t].id = def_amqp.id))

\* C1 amended: for EDIT, DELETE and CHANGE_PASSWORD the filter accepts a
\* message iff its id is the id of the current definition; a CREATE message
\* is never accepted, whatever its id.
C1_AcceptsIffIdMatches ==
    \A t \in Threads :
        pc[t] # "idle" =>
            /\ msg[t].action \in {AMQP_EDIT, AMQP_DELETE, AMQP_CHANGE_PASSWORD}
                 => ((pc[t] = "running") <=> (msg[t].id = def_amqp.id))
            /\ msg[t].action = AMQP_CREATE => pc[t] = "ignored"

C1_Witness ==
    \E t, u \in Threads :
        /\ Running(t, AMQP_CHANGE_PASSWORD) /\ msg[t].id = def_amqp.id
        /\ pc[u] = "ignored" /\ msg[u].action = AMQP_CREATE /\ msg[u].id = def_amqp.id

\* C2: a CONNECTOR_CLOSE message is accepted iff its odb_token is the
\* connector's own ODB token, whatever the current definition is.
C2_CloseIffOwnToken ==
    \A t \in Threads :
        (pc[t] # "idle" /\ msg[t].action = CLOSE)
            => ((pc[t] = "running") <=> (msg[t].odb_token = odb.token))

C2_Witness ==
    \E t \in Threads :
        /\ pc[t] = "ignored" /\ msg[t].action = CLOSE
        /\ msg[t].odb_token # odb.token
        /\ def_amqp.host.text # Item.host.text

\* C3: once the EDIT handler has applied a message without a password, the
\* definition has the password it had when the handler took the lock, and
\* every other attribute is the message's, the host as a str.
C3_EditKeepsPassword ==
    \A t \in Threads :
        (Running(t, AMQP_EDIT) /\ ~Has(msg[t], "password") /\ Past(t, "edit_set_host"))
            => /\ DOMAIN def_amqp = (DOMAIN msg[t]) \cup {"password"}
               /\ def_amqp.password = entry.def.password
               /\ def_amqp.host = [kind |-> "str", text |-> msg[t].host.text]
               /\ \A k \in (DOMAIN msg[t]) \ {"host"} : def_amqp[k] = msg[t][k]

C3_Witness ==
    \E t \in Threads :
        /\ Running(t, AMQP_EDIT) /\ ~Has(msg[t], "password") /\ Past(t, "recreate")
        /\ entry.def.password \in NewPasswords
        /\ msg[t].host.kind = "unicode"

\* C4: the delivery of a DEFINITION_* message whose id is not the id of the
\* current definition leaves the definition, both registries and every
\* connection as they were, and the thread returns without running a handler.
C4_MismatchIgnored ==
    [][\A t \in Threads :
          /\ (pc[t] = "idle" /\ pc'[t] # "idle"
                /\ msg'[t].action \in DefinitionActions
                /\ msg'[t].id # def_amqp.id)
               => (pc'[t] = "ignored" /\ def_amqp' = def_amqp /\ out_amqp' = out_amqp
                     /\ channel_amqp' = channel_amqp /\ conns' = conns)
          /\ pc[t] = "ignored" => pc'[t] # "running"]_vars

C4_Witness ==
    \E t \in Threads :
        /\ pc[t] = "ignored" /\ msg[t].action = AMQP_EDIT
        /\ msg[t].id # def_amqp.id
        /\ def_amqp.host.text # Item.host.text

\* C5: once the CHANGE_PASSWORD handler has run its body and before it
\* releases its locks, the definition's
\* password is the message's, and every entry of the outgoing registry holds
\* a connection object that did not exist before, started, while the object
\* it held before has been closed.
C5_ChangePasswordRecreates ==
    \A t \in Threads :
        (Running(t, AMQP_CHANGE_PASSWORD) /\ BodyDone(t))
            => /\ def_amqp.password = msg[t].password
               /\ DOMAIN out_amqp = DOMAIN entry.out
               /\ \A n \in DOMAIN out_amqp :
                     /\ out_amqp[n] > entry.heap
                     /\ conns[out_amqp[n]].transport = "connecting"
                     /\ conns[entry.out[n]].transport = "closed"
                     /\ conns[entry.out[n]].close_calls = 1

C5_Witness ==
    \E t \in Threads :
        /\ Running(t, AMQP_CHANGE_PASSWORD) /\ BodyDone(t)
        /\ entry.def.password # msg[t].password
        /\ DOMAIN out_amqp # {}

\* The non-password attributes of d all come from the one message m.
FromMessage(d, m) ==
    /\ DOMAIN d = (DOMAIN m) \cup {"password"}
    /\ d.host = [kind |-> "str", text |-> m.host.text]
    /\ \A k \in (DOMAIN m) \ {"host", "password"} : d[k] = m[k]

\* d is the definition loaded at startup or the outcome of exactly one EDIT
\* message, with a password set at startup or by CHANGE_PASSWORD.
Whole(d) ==
    /\ \/ \A k \in (DOMAIN d) \ {"password"} :
             k \in DOMAIN Item /\ d[k] = (IF k = "host" THEN [kind |-> "str", text |-> Item.host.text]
                                                         ELSE Item[k])
       \/ \E m \in EditMsgs : FromMessage(d, m)
    /\ Has(d, "password")
    /\ d.password \in {Item.password} \cup NewPasswords

\* C6: EDIT handlers running on different threads are serialized: whenever
\* no thread is inside the critical section of def_amqp_lock, and whenever
\* an EDIT handler reads the definition it is about to replace, the
\* definition is whole: its attributes other than the password come from
\* one single message and its password is the one carried over.
C6_EditsSerialized ==
    /\ (phase = "running" /\ lock[DefLock].owner = 0) => Whole(def_amqp)
    /\ \A t \in Threads :
          (Running(t, AMQP_EDIT) /\ Instr(t).op = "edit_read_password")
              => (Holds(t, DefLock) /\ Whole(def_amqp) /\ def_amqp = entry.def)

C6_Witness ==
    \E t, u \in Threads :
        /\ Running(t, AMQP_EDIT) /\ Running(u, AMQP_EDIT)
        /\ msg[t] # msg[u]
        /\ Holds(t, DefLock) /\ Past(t, "edit_assign") /\ ~Whole(def_amqp)
        /\ Blocked(u)

C8_Classification ==
    \A s \in DOMAIN conns :
        conns[s].last_error # NoException =>
            LET e == conns[s].last_error
                io == e.cls \in {"EnvironmentError", "IOError", "OSError"}
                retryable == \/ e.cls = "TypeError"
                             \/ io /\ e.errno \in {ENETUNREACH, ENETRESET, ECONNABORTED,
                                                   ECONNRESET, ETIMEDOUT, ECONNREFUSED,
                                                   EHOSTUNREACH}
            IN  /\ conns[s].verdict \in {"retry", "fatal"}
                /\ (conns[s].verdict = "retry") <=> retryable

C8_Witness ==
    \E s \in DOMAIN conns :
        /\ conns[s].last_error = [cls |-> "IOError", errno |-> ETIMEDOUT]
        /\ conns[s].verdict = "retry"
        /\ conns[s].starts = 2

\* C9: a thread holding out_amqp_lock or channel_amqp_lock holds
\* def_amqp_lock, a thread holding channel_amqp_lock holds out_amqp_lock, and
\* no thread waits for a lock whose owner is itself waiting for a lock.
C9_LockOrder ==
    \A t \in Threads :
        /\ (Holds(t, OutLock) \/ Holds(t, ChannelLock)) => Holds(t, DefLock)
        /\ Holds(t, ChannelLock) => Holds(t, OutLock)
        /\ (ProcessAlive /\ Blocked(t)) =>
               \E u \in Threads : Holds(u, Instr(t).lock) /\ ~Blocked(u)

C9_Witness ==
    \E t, u \in Threads :
        /\ Holds(t, DefLock) /\ Holds(t, OutLock) /\ Holds(t, ChannelLock)
        /\ Running(u, AMQP_CREATE) /\ Blocked(u)

\* C10 as stated: a second close() on a connection is a no-op: the
\* TornadoConnection receives at most one close request.
C10_SecondCloseIsNoOp ==
    \A s \in DOMAIN conns : conns[s].close_calls <= 1

InClose(t) == pc[t] = "running" /\ msg[t].action \in {CLOSE, AMQP_DELETE}

OutgoingClosed ==
    \A n \in DOMAIN out_amqp : conns[out_amqp[n]].transport = "closed"

\* C11: _close closes the ODB connection only after the outgoing connections
\* are stopped and calls terminate only after the ODB connection is closed,
\* holding def_amqp_lock and out_amqp_lock throughout; when stopping raises,
\* the ODB connection stays open, terminate is not called, and the thread
\* returns holding no lock.
C11_ShutdownOrder ==
    /\ [](\A t \in Threads :
            /\ (InClose(t) /\ Instr(t).op \in {"stop", "odb_close", "terminate"})
                 => (Holds(t, DefLock) /\ Holds(t, OutLock))
            /\ (InClose(t) /\ Instr(t).op = "odb_close")
                 => (OutgoingClosed /\ odb.closes = 0 /\ terminations = 0)
            /\ (InClose(t) /\ Instr(t).op = "terminate")
                 => (OutgoingClosed /\ odb.closes = 1 /\ terminations = 0)
            /\ (InClose(t) /\ ProcessAlive /\ BodyDone(t))
                 => (odb.closes = 0 /\ terminations = 0))
    /\ [](terminations > 0 => (OutgoingClosed /\ odb.closes > 0))
    /\ [][\A t \in Threads :
            (pc[t] = "running" /\ pc'[t] = "idle")
                => \A l \in Locks : lock'[l].owner # t]_vars

C11_Witness ==
    \E t \in Threads :
        /\ InClose(t) /\ ProcessAlive /\ BodyDone(t)
        /\ Holds(t, DefLock) /\ Holds(t, OutLock)
        /\ DOMAIN out_amqp # {} /\ ~OutgoingClosed

\* C12: no step of an EDIT or CHANGE_PASSWORD handler changes the channel
\* registry or a connection object it holds, and the recreation runs with
\* channel_amqp_lock held.
C12_InboundUntouched ==
    /\ [](\A t \in Threads :
            (pc[t] = "running" /\ msg[t].action \in {AMQP_EDIT, AMQP_CHANGE_PASSWORD}
               /\ Instr(t).op = "recreate") => Holds(t, ChannelLock))
    /\ [][\A t \in Threads :
            (pc[t] = "running" /\ msg[t].action \in {AMQP_EDIT, AMQP_CHANGE_PASSWORD}
               /\ (ip'[t] # ip[t] \/ pc'[t] # pc[t]))
                => /\ channel_amqp' = channel_amqp
                   /\ \A n \in DOMAIN channel_amqp :
                         conns'[channel_amqp[n]] = conns[channel_amqp[n]]]_vars

C12_Witness ==
    \E t \in Threads :
        /\ Running(t, AMQP_EDIT) /\ Past(t, "recreate")
        /\ Holds(t, ChannelLock)
        /\ DOMAIN channel_amqp # {}
        /\ \A n \in DOMAIN channel_amqp : conns[channel_amqp[n]].transport = "connecting"
        /\ \A n \in DOMAIN out_amqp : out_amqp[n] > entry.heap

\* C13: the CREATE handler stores, with def_amqp_lock held, the message
\* under the message's id with the host as a str, and every attribute
\* def_amqp had before (id, host, port, credentials, tuning) is unchanged.
C13_CreateStoresUnderId ==
    \A t \in Threads :
        /\ (Running(t, AMQP_CREATE) /\ Instr(t).op \in {"create_set_host", "create_store"})
             => Holds(t, DefLock)
        /\ (Running(t, AMQP_CREATE) /\ BodyDone(t))
             => LET key == IdKey(msg[t].id)
                IN  /\ Has(def_amqp, key)
                    /\ def_amqp[key].host.kind = "str"
                    /\ \E m \in CreateMsgs :
                          /\ m.id = msg[t].id
                          /\ def_amqp[key].host.text = m.host.text
                          /\ DOMAIN def_amqp[key] = DOMAIN m
                          /\ \A k \in (DOMAIN m) \ {"host"} : def_amqp[key][k] = m[k]
                    /\ DOMAIN def_amqp = (DOMAIN entry.def) \cup {key}
                    /\ \A k \in (DOMAIN entry.def) \ {key} : def_amqp[k] = entry.def[k]

C13_Witness ==
    \E t \in Threads :
        /\ Running(t, AMQP_CREATE) /\ BodyDone(t)
        /\ msg[t].id # def_amqp.id
        /\ def_amqp.host.text # Item.host.text

\* C14 as stated: a connection that holds a channel has an open transport,
\* and the channel was opened on its current TornadoConnection.
C14_ChannelImpliesOpenTransport ==
    \A s \in DOMAIN conns :
        conns[s].channel # 0 =>
            (conns[s].transport = "open" /\ conns[s].channel = conns[s].conn)

\* C15 as stated: once a connection is closed without a channel, the
\* callbacks that arrive later are discarded: no channel is requested and
\* none is recorded.
C15_LateCallbacksDiscarded ==
    [][\A s \in DOMAIN conns :
          (conns[s].transport = "closed" /\ conns[s].channel = 0)
              => /\ conns'[s].channel = 0
                 /\ conns'[s].pending # "channel" \/ conns[s].pending = "channel"]_vars

\* C16: a channel is recorded only by the channel-open callback that
\* _on_connected asked for, and _on_connected runs only for a
\* TornadoConnection that _start created.
C16_ReadyOrder ==
    /\ [](\A s \in DOMAIN conns :
            /\ conns[s].pending # "none" => (conns[s].conn # 0 /\ conns[s].starts > 0)
            /\ conns[s].channel # 0 => conns[s].channel <= conns[s].conn)
    /\ [][\A s \in DOMAIN conns :
            /\ conns'[s].channel # conns[s].channel
                 => (conns[s].pending = "channel" /\ conns'[s].channel = conns[s].conn)
            /\ (conns'[s].pending = "channel" /\ conns[s].pending # "channel")
                 => (conns[s].pending = "connect" /\ conns[s].conn # 0)]_vars

C16_Witness ==
    \E s \in DOMAIN conns :
        /\ conns[s].channel # 0
        /\ conns[s].channel = conns[s].conn
        /\ conns[s].transport = "open"
        /\ conns[s].starts = 2

C18_NewPasswordInParams ==
    \A t \in Threads :
        (Running(t, AMQP_CHANGE_PASSWORD) /\ BodyDone(t)) =>
            /\ amqp_conn_params(def_amqp) # AttributeError
            /\ amqp_conn_params(def_amqp).password = msg[t].password
            /\ \A n \in DOMAIN out_amqp :
                  conns[out_amqp[n]].conn_params.password = msg[t].password
            /\ DOMAIN def_amqp = (DOMAIN entry.def) \cup {"password"}
            /\ \A k \in (DOMAIN entry.def) \ {"password"} :
                  def_amqp[k] = entry.def[k]

\* C19: when the definition lookup of _setup_odb finds no record, startup
\* ends there: the definition stays unpopulated, no connection is started
\* and no message is handled, then or later.
C19_LookupFailureIsFatal ==
    /\ [](phase = "failed" => def_amqp = EmptyBunch)
    /\ [](~Has(def_amqp, "id") =>
            /\ conns = << >>
            /\ DOMAIN out_amqp = {}
            /\ DOMAIN channel_amqp = {}
            /\ \A t \in Threads : pc[t] = "idle" /\ msg[t] = NoMsg)
    /\ [][phase = "failed" => vars' = vars]_vars

C19_Witness ==
    /\ phase = "failed"
    /\ ~Has(def_amqp, "id")
    /\ conns = << >>

\* C20: the EDIT handler leaves the definition's password as it found it,
\* whether or not the message has a password of its own, so the password
\* is always the one loaded at startup or one set by CHANGE_PASSWORD; and
\* the handler recreates the outgoing connections only once the definition
\* is the message's, still holding def_amqp_lock.
C20_EditNeverSetsPassword ==
    /\ \A t \in Threads :
          /\ (Running(t, AMQP_EDIT) /\ BodyDone(t))
                => def_amqp.password = entry.def.password
          /\ (Running(t, AMQP_EDIT) /\ Instr(t).op = "recreate")
                => /\ Holds(t, DefLock)
                   /\ FromMessage(def_amqp, msg[t])
                   /\ def_amqp.password = entry.def.password
                   /\ def_amqp.host.kind = "str"
                   /\ out_amqp = entry.out
          /\ (Running(t, AMQP_EDIT) /\ Holds(t, DefLock) /\ out_amqp # entry.out)
                => (FromMessage(def_amqp, msg[t]) /\ def_amqp.host.kind = "str")
    /\ (lock[DefLock].owner = 0 /\ Has(def_amqp, "id"))
          => def_amqp.password \in {Item.password} \cup NewPasswords

C20_Witness ==
    \E t \in Threads :
        /\ Running(t, AMQP_EDIT)
        /\ BodyDone(t)
        /\ Has(msg[t], "password")
        /\ msg[t].password # def_amqp.password
        /\ def_amqp.password \in NewPasswords
        /\ out_amqp # entry.out

====
